---------------------------- MODULE Spec2Model ----------------------------
(***************************************************************************)
(* Model of extractor.py: the heading classifier (is_heading), the title   *)
(* inferrer (extract_title), the outline builder (extract_outline), the    *)
(* document processor (extract_structure) and the batch driver             *)
(* (process_pdfs).                                                         *)
(*                                                                         *)
(* A text is a sequence of one-character strings, so that strip, split,    *)
(* lower, isupper, islower and the regular expressions are computed on     *)
(* the characters, as Python computes them.                                *)
(***************************************************************************)
EXTENDS Integers, Sequences, FiniteSets, TLC

VARIABLES
    text,          \* is_heading: the argument
    level,         \* is_heading: the value returned ("unset" before the call)
    input_dir,     \* names of the entries of /app/input
    out_exists,    \* whether /app/output exists
    out_files,     \* /app/output: file name -> content written
    log,           \* the logger's messages, in order
    pdf_files,     \* process_pdfs: the globbed files not yet visited
    pdf_file,      \* process_pdfs: the loop variable
    pc,            \* position in process_pdfs / extract_structure
    doc,           \* extract_structure: the opened document
    title,         \* extract_structure: local title
    outline,       \* extract_outline: local outline
    seen,          \* extract_outline: local seen
    page_num,      \* extract_outline: loop variable (0-based)
    line_num,      \* extract_outline: lines of the current page already visited
    result         \* extract_structure: the value returned

vars == <<text, level, input_dir, out_exists, out_files, log, pdf_files,
          pdf_file, pc, doc, title, outline, seen, page_num, line_num, result>>

-----------------------------------------------------------------------------
(* Characters and the str methods the code uses *)

UpperSeq == <<"A", "B", "C", "D", "E", "F", "G", "H", "I", "J", "K", "L", "M",
              "N", "O", "P", "Q", "R", "S", "T", "U", "V", "W", "X", "Y", "Z">>

LowerSeq == <<"a", "b", "c", "d", "e", "f", "g", "h", "i", "j", "k", "l", "m",
              "n", "o", "p", "q", "r", "s", "t", "u", "v", "w", "x", "y", "z">>

UpperLetters == {UpperSeq[i] : i \in 1..26}

LowerLetters == {LowerSeq[i] : i \in 1..26}

Digits == {"0", "1", "2", "3", "4", "5", "6", "7", "8", "9"}

\* what \s, str.strip() and str.split() treat as white space
Whitespace == {" ", "\t", "\n"}

RomanLetters == {"I", "V", "X", "L", "C", "D", "M"}

None == "None"

Min(S) == CHOOSE x \in S : \A y \in S : x <= y

Max(S) == CHOOSE x \in S : \A y \in S : x >= y

\* str.lower() on one character
LowerChar(c) ==
    IF c \in UpperLetters
      THEN LowerSeq[CHOOSE i \in 1..26 : UpperSeq[i] = c]
      ELSE c

\* str.lower()
Lower(t) == <<>> \o [i \in 1..Len(t) |-> LowerChar(t[i])]

\* str.strip()
Strip(t) ==
    LET keep == {i \in 1..Len(t) : t[i] \notin Whitespace}
    IN  IF keep = {} THEN <<>> ELSE SubSeq(t, Min(keep), Max(keep))

\* len(str.split()): the number of maximal runs of non-white-space characters
WordCount(t) ==
    Cardinality({i \in 1..Len(t) :
                    /\ t[i] \notin Whitespace
                    /\ (i = 1 \/ t[i - 1] \in Whitespace)})

\* str.isupper(): at least one cased character, and no lowercase one
IsUpper(t) ==
    /\ \E i \in 1..Len(t) : t[i] \in UpperLetters
    /\ \A i \in 1..Len(t) : t[i] \notin LowerLetters

\* str.islower(): at least one cased character, and no uppercase one
IsLower(t) ==
    /\ \E i \in 1..Len(t) : t[i] \in LowerLetters
    /\ \A i \in 1..Len(t) : t[i] \notin UpperLetters

\* " ".join(parts)
RECURSIVE Join(_)
Join(parts) ==
    IF parts = <<>> THEN <<>>
    ELSE IF Len(parts) = 1 THEN parts[1]
    ELSE parts[1] \o <<" ">> \o Join(Tail(parts))

-----------------------------------------------------------------------------
(* re.match: a position is the index of the next character to read, and 0  *)
(* is "no match".  Every repetition in the patterns of __init__ is         *)
(* followed by a character outside its class (or by nothing), so the       *)
(* greedy run is the only way to match.                                    *)

\* the first index from i on whose character is not in S
RunEnd(t, i, S) ==
    Min({j \in i..(Len(t) + 1) : j = Len(t) + 1 \/ t[j] \notin S})

\* one character of class S
One(t, i, S) ==
    IF i > 0 /\ i <= Len(t) /\ t[i] \in S THEN i + 1 ELSE 0

\* S+
Plus(t, i, S) ==
    IF One(t, i, S) = 0 THEN 0 ELSE RunEnd(t, i, S)

\* the literal characters s
Lit(t, i, s) ==
    IF i > 0 /\ i + Len(s) - 1 <= Len(t) /\ SubSeq(t, i, i + Len(s) - 1) = s
      THEN i + Len(s)
      ELSE 0

\* r"^\d+\.\d+\.\d+"
re_num_num_num(t) ==
    LET a == Lit(t, Plus(t, 1, Digits), <<".">>)
        b == Lit(t, Plus(t, a, Digits), <<".">>)
    IN  Plus(t, b, Digits) > 0

\* r"^\([0-9]+\)"
re_paren_int(t) ==
    Lit(t, Plus(t, Lit(t, 1, <<"(">>), Digits), <<")">>) > 0

\* r"^\d+\.\d+"
re_num_num(t) ==
    Plus(t, Lit(t, Plus(t, 1, Digits), <<".">>), Digits) > 0

\* r"^\([a-z]\)"
re_paren_letter(t) ==
    Lit(t, One(t, Lit(t, 1, <<"(">>), LowerLetters), <<")">>) > 0

\* r"^[a-z]\)"
re_letter_paren(t) ==
    Lit(t, One(t, 1, LowerLetters), <<")">>) > 0

\* r"^([A-Z][A-Z\s]{4,}|[IVXLCDM]+\s|[1-9]\s)"
re_caps_roman_digit(t) ==
    \/ /\ One(t, 1, UpperLetters) > 0
       /\ RunEnd(t, 2, UpperLetters \cup Whitespace) >= 6
    \/ One(t, Plus(t, 1, RomanLetters), Whitespace) > 0
    \/ One(t, One(t, 1, Digits \ {"0"}), Whitespace) > 0

\* r"^Chapter\s+\d+"
re_chapter(t) ==
    Plus(t, Plus(t, Lit(t, 1, <<"C", "h", "a", "p", "t", "e", "r">>),
                 Whitespace), Digits) > 0

\* r"^Appendix\s+[A-Z0-9]+"
re_appendix(t) ==
    Plus(t, Plus(t, Lit(t, 1, <<"A", "p", "p", "e", "n", "d", "i", "x">>),
                 Whitespace), UpperLetters \cup Digits) > 0

\* any(re.match(pat, text) for pat in self.h3_patterns)
h3_patterns(t) == re_num_num_num(t) \/ re_paren_int(t)

h2_patterns(t) == re_num_num(t) \/ re_paren_letter(t) \/ re_letter_paren(t)

h1_patterns(t) == re_caps_roman_digit(t) \/ re_chapter(t) \/ re_appendix(t)

heading_keywords ==
    { <<"i", "n", "t", "r", "o", "d", "u", "c", "t", "i", "o", "n">>,
      <<"s", "u", "m", "m", "a", "r", "y">>,
      <<"c", "o", "n", "c", "l", "u", "s", "i", "o", "n">>,
      <<"o", "v", "e", "r", "v", "i", "e", "w">>,
      <<"a", "b", "s", "t", "r", "a", "c", "t">>,
      <<"r", "e", "f", "e", "r", "e", "n", "c", "e", "s">>,
      <<"a", "p", "p", "e", "n", "d", "i", "x">>,
      <<"c", "o", "n", "t", "e", "n", "t", "s">>,
      <<"t", "a", "b", "l", "e", " ", "o", "f", " ",
        "c", "o", "n", "t", "e", "n", "t", "s">>,
      <<"a", "c", "k", "n", "o", "w", "l", "e", "d", "g", "e", "m", "e", "n", "t", "s">> }

\* the length gate of is_heading
MaxHeadingWords == 20

MaxHeadingLen == 150

TooLong(t) == WordCount(t) > MaxHeadingWords \/ Len(t) > MaxHeadingLen

\* the classifier with the H2 patterns tried before the H3 patterns
classify_h2_first(t) ==
    IF TooLong(t) THEN None
    ELSE IF h2_patterns(t) THEN "H2"
    ELSE IF h3_patterns(t) THEN "H3"
    ELSE IF h1_patterns(t) THEN "H1"
    ELSE IF Lower(t) \in heading_keywords \/ IsUpper(t) THEN "H1"
    ELSE None

\* the classifier without the text.isupper() fallback
classify_no_isupper(t) ==
    IF TooLong(t) THEN None
    ELSE IF h3_patterns(t) THEN "H3"
    ELSE IF h2_patterns(t) THEN "H2"
    ELSE IF h1_patterns(t) THEN "H1"
    ELSE IF Lower(t) \in heading_keywords THEN "H1"
    ELSE None

\* the classifier with the length gate tried after the patterns
classify_gate_last(t) ==
    IF h3_patterns(t) THEN "H3"
    ELSE IF h2_patterns(t) THEN "H2"
    ELSE IF h1_patterns(t) THEN "H1"
    ELSE IF TooLong(t) THEN None
    ELSE IF Lower(t) \in heading_keywords \/ IsUpper(t) THEN "H1"
    ELSE None

\* is_heading after text = text.strip()
classify(t) ==
    IF TooLong(t) THEN None
    ELSE IF h3_patterns(t) THEN "H3"
    ELSE IF h2_patterns(t) THEN "H2"
    ELSE IF h1_patterns(t) THEN "H1"
    ELSE IF Lower(t) \in heading_keywords \/ IsUpper(t) THEN "H1"
    ELSE None

is_heading(t) == classify(Strip(t))

-----------------------------------------------------------------------------
(* The line texts is_heading is checked on: seed texts, each followed by   *)
(* up to MaxTyped further characters, and these padded with words or       *)
(* characters up to and just beyond the gate.                              *)

MaxTyped == 2

MaxPadTyped == 1

TypedChars == {"1", "0", ".", " ", "\t", "A", "I", "a", "(", ")", "-"}

Seeds ==
    { <<>>,
      <<"1", ".", "2", ".", "3">>,
      <<"1", ".", "2">>,
      <<"(", "1", ")">>,
      <<"(", "a", ")">>,
      <<"a", ")">>,
      <<"A", "B", "C", "D">>,
      <<"I", "V", " ">>,
      <<"1", " ">>,
      <<"C", "h", "a", "p", "t", "e", "r", " ", "1">>,
      <<"A", "p", "p", "e", "n", "d", "i", "x", " ", "A">>,
      <<"i", "n", "t", "r", "o", "d", "u", "c", "t", "i", "o", "n">>,
      <<"T", "a", "b", "l", "e", " ", "O", "f", " ",
        "C", "o", "n", "t", "e", "n", "t", "s">>,
      <<"O", "K">>,
      <<"h", "e", "l", "l", "o">>,
      <<" ", " ", " ", " ">>,
      <<"1", ".", "2", " ", "B", "a", "c", "k", "g", "r", "o", "u", "n", "d">> }

\* the texts of at most n characters of TypedChars
RECURSIVE TypedUpTo(_)
TypedUpTo(n) ==
    IF n = 0 THEN {<<>>}
    ELSE LET shorter == TypedUpTo(n - 1)
         IN  shorter \cup {Append(x, c) : x \in shorter, c \in TypedChars}

\* n copies of u
Rep(u, n) ==
    IF n <= 0 THEN <<>>
    ELSE <<>> \o [i \in 1..(n * Len(u)) |-> u[((i - 1) % Len(u)) + 1]]

\* t followed by copies of the character c up to n characters
PadChars(t, c, n) == t \o Rep(<<c>>, n - Len(t))

\* t followed by copies of the word c up to n words
PadWords(t, c, n) == t \o Rep(<<" ", c>>, n - WordCount(t))

ShortTexts == {s \o x : s \in Seeds, x \in TypedUpTo(MaxTyped)}

LongTexts ==
    LET base == {s \o x : s \in Seeds, x \in TypedUpTo(MaxPadTyped)}
    IN  {PadChars(t, c, n) : t \in base, c \in {"A", "a"},
                             n \in {MaxHeadingLen, MaxHeadingLen + 1}}
        \cup
        {PadWords(t, c, n) : t \in base, c \in {"A", "a"},
                             n \in {MaxHeadingWords, MaxHeadingWords + 1}}

HeadingTexts == ShortTexts \cup LongTexts

-----------------------------------------------------------------------------
(* Documents as the adapter (fitz) hands them over.  A span is             *)
(* [text, size]; a line is [spans]; a block is a text block                *)
(* [type |-> 0, lines] or an image block [type |-> 1], which has no        *)
(* "lines" key; a page is the value of page.get_text("dict")["blocks"].    *)
(* A file's content is [opens, pages, damaged]: fitz.open raises when      *)
(* opens is FALSE, and get_text raises on page number damaged (1-based;    *)
(* 0: on no page).                                                         *)

Span(t, sz) == [text |-> t, size |-> sz]

Line(spans) == [spans |-> spans]

TextBlock(lines) == [type |-> 0, lines |-> lines]

ImageBlock == [type |-> 1]

Unreadable == [opens |-> FALSE, pages |-> <<>>, damaged |-> 0]

page_count(d) == Len(d.pages)

RECURSIVE Flatten(_)
Flatten(seqs) ==
    IF seqs = <<>> THEN <<>> ELSE Head(seqs) \o Flatten(Tail(seqs))

\* for block in blocks: for line in block.get("lines", [])
PageLines(page) ==
    Flatten([i \in 1..Len(page) |->
                IF "lines" \in DOMAIN page[i] THEN page[i].lines ELSE <<>>])

\* for b in blocks: (skip if "lines" not in b) for l in b["lines"]: for s in l["spans"]
PageSpans(page) ==
    LET lines == PageLines(page)
    IN  Flatten([i \in 1..Len(lines) |-> lines[i].spans])

-----------------------------------------------------------------------------
(* extract_title *)

MinTitleLen == 10

MaxTitleLen == 150

TitlePages == 2

\* extract_title reading every page of the document
first_pages_all(d) == 1..page_count(d)

\* the pages extract_title reads: range(min(2, doc.page_count)), 1-based here
first_pages(d) ==
    1..(IF page_count(d) < TitlePages THEN page_count(d) ELSE TitlePages)

\* 10 < len(txt) < 150 and not txt.islower()
is_candidate(txt) ==
    MinTitleLen < Len(txt) /\ Len(txt) < MaxTitleLen /\ ~IsLower(txt)

\* the candidates of one page, in span order: (txt, s["size"], page_num)
page_candidates(d, p) ==
    LET spans == PageSpans(d.pages[p])
        all == [i \in 1..Len(spans) |->
                   [txt |-> Strip(spans[i].text), size |-> spans[i].size,
                    page_num |-> p - 1]]
    IN  SelectSeq(all, LAMBDA c : is_candidate(c.txt))

RECURSIVE candidates_from(_, _)
candidates_from(d, p) ==
    IF p \notin first_pages(d) THEN <<>>
    ELSE page_candidates(d, p) \o candidates_from(d, p + 1)

candidates(d) == candidates_from(d, 1)

\* key=lambda x: (-x[1], x[2]), compared as Python compares tuples
sort_key_less(a, b) ==
    \/ a.size > b.size
    \/ a.size = b.size /\ a.page_num < b.page_num

\* candidates.sort(...) is stable: element 0 afterwards is the earliest of
\* the candidates that no other candidate sorts before
sorted_first(cs) ==
    cs[Min({i \in 1..Len(cs) :
               \A j \in 1..Len(cs) : ~sort_key_less(cs[j], cs[i])})]

extract_title(d) ==
    IF candidates(d) = <<>> THEN <<>> ELSE sorted_first(candidates(d)).txt

-----------------------------------------------------------------------------
(* extract_outline *)

\* " ".join([span["text"].strip() for span in line.get("spans", [])]).strip()
full_line(line) ==
    Strip(Join([i \in 1..Len(line.spans) |-> Strip(line.spans[i].text)]))

\* a dedup key that keeps the case of the text
dedup_key_cased(fl, p) == <<fl, p>>

\* a dedup key without the page
dedup_key_no_page(fl, p) == <<Lower(fl), 0>>

\* the dedup key of a line on page p (0-based)
dedup_key(fl, p) == <<Lower(fl), p>>

\* the loop body with outline.insert(0, ...) for outline.append(...)
visit_line_prepend(st, line, p) ==
    LET fl == full_line(line)
        lv == is_heading(fl)
        key == <<Lower(fl), p>>
    IN  IF fl = <<>> THEN st
        ELSE IF lv # None /\ key \notin st.seen
          THEN [outline |-> <<[level |-> lv, text |-> fl, page |-> p + 1]>>
                              \o st.outline,
                seen |-> st.seen \cup {key}]
          ELSE st

\* the body of the innermost loop on one line of page p (0-based);
\* st is [outline, seen]
visit_line(st, line, p) ==
    LET fl == full_line(line)
        lv == is_heading(fl)
        key == dedup_key(fl, p)
    IN  IF fl = <<>> THEN st
        ELSE IF lv # None /\ key \notin st.seen
          THEN [outline |-> Append(st.outline,
                                   [level |-> lv, text |-> fl, page |-> p + 1]),
                seen |-> st.seen \cup {key}]
          ELSE st

RECURSIVE visit_lines(_, _, _)
visit_lines(st, lines, p) ==
    IF lines = <<>> THEN st
    ELSE visit_lines(visit_line(st, Head(lines), p), Tail(lines), p)

RECURSIVE visit_pages(_, _, _)
visit_pages(st, d, p) ==
    IF p >= page_count(d) THEN st
    ELSE visit_pages(visit_lines(st, PageLines(d.pages[p + 1]), p), d, p + 1)

\* extract_outline as a function of the document
extract_outline(d) == visit_pages([outline |-> <<>>, seen |-> {}], d, 0).outline

-----------------------------------------------------------------------------
(* extract_structure and the file names of process_pdfs *)

\* the index of the last "." of a name, 0 when there is none
LastDot(name) ==
    LET dots == {i \in 1..Len(name) : name[i] = "."}
    IN  IF dots = {} THEN 0 ELSE Max(dots)

\* Path.stem: the name without its last suffix; a leading or a final "."
\* starts no suffix
stem(name) ==
    IF 1 < LastDot(name) /\ LastDot(name) < Len(name)
      THEN SubSeq(name, 1, LastDot(name) - 1)
      ELSE name

Ext_pdf == <<".", "p", "d", "f">>

Ext_json == <<".", "j", "s", "o", "n">>

\* the names input_dir.glob("*.pdf") yields
matches_pdf(name) ==
    /\ Len(name) >= Len(Ext_pdf)
    /\ SubSeq(name, Len(name) - Len(Ext_pdf) + 1, Len(name)) = Ext_pdf

\* output_dir / f"{pdf_file.stem}.json"
output_file(name) == stem(name) \o Ext_json

\* whether some call of extract_structure on this content raises
raises(d) == ~d.opens \/ d.damaged \in 1..page_count(d)

degraded(name) == [title |-> stem(name), outline |-> <<>>]

\* extract_structure as a function of the path and the file's content
extract_structure(name, d) ==
    IF raises(d) THEN degraded(name)
    ELSE [title |-> extract_title(d), outline |-> extract_outline(d)]

-----------------------------------------------------------------------------
(* The documents the model is run on *)

MaxPages == 3

MaxBlocks == 2

MaxFiles == 2

T_CONCLUSION == <<"C", "O", "N", "C", "L", "U", "S", "I", "O", "N">>

T_Conclusion == <<"C", "o", "n", "c", "l", "u", "s", "i", "o", "n">>

T_1_2 == <<"1", ".", "2">>

T_Background == <<" ", "B", "a", "c", "k", "g", "r", "o", "u", "n", "d", " ">>

T_AnnualReport ==
    <<"A", "n", "n", "u", "a", "l", " ", "R", "e", "p", "o", "r", "t", " ",
      "2", "0", "2", "4">>

T_ANNUAL_REPORT ==
    <<"A", "N", "N", "U", "A", "L", " ", "R", "E", "P", "O", "R", "T", " ",
      "2", "0", "2", "4">>

T_HelloWorld ==
    <<" ", " ", "H", "e", "l", "l", "o", " ", "W", "o", "r", "l", "d", " ", " ">>

T_annual_report ==
    <<"a", "n", "n", "u", "a", "l", " ", "r", "e", "p", "o", "r", "t">>

T_Date == <<"2", "0", "2", "4", "-", "0", "1", "-", "2", "0", "2", "4">>

T_Blank == <<" ", " ">>

\* 21 one-letter words in capitals
T_LongCaps == PadWords(<<"A">>, "A", MaxHeadingWords + 1)

OneSpanBlock(t, sz) == TextBlock(<<Line(<<Span(t, sz)>>)>>)

\* the blocks the documents of the outline builder are made of
OutlineBlocks ==
    { OneSpanBlock(T_CONCLUSION, 12),
      OneSpanBlock(T_Conclusion, 12),
      OneSpanBlock(T_AnnualReport, 18),
      ImageBlock,
      TextBlock(<<Line(<<Span(T_Blank, 10)>>), Line(<<>>),
                  Line(<<Span(T_LongCaps, 10)>>),
                  Line(<<Span(T_ANNUAL_REPORT, 10)>>)>>),
      TextBlock(<<Line(<<Span(T_CONCLUSION, 12)>>),
                  Line(<<Span(T_1_2, 14), Span(T_Background, 14)>>),
                  Line(<<Span(T_Conclusion, 12)>>)>>) }

\* the blocks the documents of the title inferrer are made of
TitleBlocks ==
    { OneSpanBlock(T_AnnualReport, 18),
      OneSpanBlock(T_HelloWorld, 18),
      OneSpanBlock(T_Background, 24),
      OneSpanBlock(T_annual_report, 24),
      OneSpanBlock(Rep(<<"A">>, MaxTitleLen - 1), 10),
      OneSpanBlock(Rep(<<"A">>, MaxTitleLen), 24),
      OneSpanBlock(T_Date, 10),
      ImageBlock }

\* the sequences of exactly n blocks of pool
RECURSIVE BlockSeqs(_, _)
BlockSeqs(pool, n) ==
    IF n = 0 THEN {<<>>}
    ELSE {Append(bs, b) : bs \in BlockSeqs(pool, n - 1), b \in pool}

\* the sequences of exactly p pages holding at most n blocks of pool in all
RECURSIVE PageSeqs(_, _, _)
PageSeqs(pool, p, n) ==
    IF p = 0 THEN {<<>>}
    ELSE UNION {{<<pg>> \o rest : pg \in BlockSeqs(pool, k),
                                  rest \in PageSeqs(pool, p - 1, n - k)}
                : k \in 0..n}

\* the page sequences of at most MaxPages pages and MaxBlocks blocks of pool
AllPageSeqs(pool) == UNION {PageSeqs(pool, p, MaxBlocks) : p \in 0..MaxPages}

OutlinePageSeqs == AllPageSeqs(OutlineBlocks)

TitlePageSeqs == AllPageSeqs(TitleBlocks)

\* a file that opens, with get_text raising on page dm (0: on none)
Doc(ps, dm) == [opens |-> TRUE, pages |-> ps, damaged |-> dm]

N_broken_pdf == <<"b", "r", "o", "k", "e", "n", ".", "p", "d", "f">>

N_x_y_pdf == <<"x", ".", "y", ".", "p", "d", "f">>

N_a_pdf == <<"a", ".", "p", "d", "f">>

N_dot_pdf == <<".", "p", "d", "f">>

N_notes_txt == <<"n", "o", "t", "e", "s", ".", "t", "x", "t">>

N_a_json == <<"a", ".", "j", "s", "o", "n">>

\* the entries /app/input may hold in a batch
BatchNames == {N_broken_pdf, N_x_y_pdf, N_a_pdf, N_dot_pdf, N_notes_txt}

\* the contents a file of a batch may have
BatchDocs ==
    { Unreadable,
      [opens |-> TRUE, damaged |-> 0,
       pages |-> <<<<OneSpanBlock(T_AnnualReport, 18),
                     OneSpanBlock(T_CONCLUSION, 12)>>>>],
      [opens |-> TRUE, damaged |-> 0,
       pages |-> <<<<OneSpanBlock(T_Conclusion, 12)>>,
                   <<OneSpanBlock(T_CONCLUSION, 12)>>>>],
      [opens |-> TRUE, damaged |-> 3,
       pages |-> <<<<OneSpanBlock(T_AnnualReport, 18)>>,
                   <<OneSpanBlock(T_CONCLUSION, 12)>>, <<>>>>] }

\* what /app/output may hold before the run: nothing, or a file of an earlier run
StaleOutput == [title |-> <<"o", "l", "d">>, outline |-> <<>>]

Put(f, k, v) == [x \in (DOMAIN f) \cup {k} |-> IF x = k THEN v ELSE f[x]]

-----------------------------------------------------------------------------
(* Initial states *)

NoFile == <<>>

NoDoc == [opens |-> TRUE, pages |-> <<>>, damaged |-> 0]

\* result before extract_structure has returned
NoResult == [title |-> <<>>, outline |-> <<>>]

\* the locals of process_pdfs and extract_structure before they are assigned
Locals ==
    /\ log = <<>>
    /\ pdf_files = {}
    /\ doc = NoDoc
    /\ title = <<>>
    /\ outline = <<>>
    /\ seen = {}
    /\ page_num = 0
    /\ line_num = 0
    /\ result = NoResult

\* is_heading called on one text
InitHeading ==
    /\ text \in HeadingTexts
    /\ level = "unset"
    /\ pc = "heading"
    /\ input_dir = <<>>
    /\ out_exists = FALSE
    /\ out_files = <<>>
    /\ pdf_file = NoFile
    /\ Locals

\* extract_structure called on one file of content d
InitOne(name, d) ==
    /\ text = <<>>
    /\ level = "unset"
    /\ pc = "open"
    /\ input_dir = [n \in {name} |-> d]
    /\ out_exists = TRUE
    /\ out_files = <<>>
    /\ pdf_file = name
    /\ Locals

\* extract_structure on an unreadable file, a readable one, or one with a
\* damaged page
InitDoc ==
    \E name \in {N_broken_pdf, N_dot_pdf} :
        \/ InitOne(name, Unreadable)
        \/ \E ps \in OutlinePageSeqs, dm \in 0..MaxPages :
               dm <= Len(ps) /\ InitOne(name, Doc(ps, dm))

InitTitle == \E ps \in TitlePageSeqs : InitOne(N_a_pdf, Doc(ps, 0))

\* process_pdfs called on a directory of at most MaxFiles entries
Init ==
    /\ text = <<>>
    /\ level = "unset"
    /\ pc = "start"
    /\ \E names \in SUBSET BatchNames :
          /\ Cardinality(names) <= MaxFiles
          /\ input_dir \in [names -> BatchDocs]
    /\ \/ out_exists = FALSE /\ out_files = <<>>
       \/ out_exists = TRUE /\ out_files = <<>>
       \/ out_exists = TRUE /\ out_files = [n \in {N_a_json} |-> StaleOutput]
    /\ pdf_file = NoFile
    /\ Locals

-----------------------------------------------------------------------------
(* is_heading as a call *)

CallIsHeading ==
    /\ pc = "heading"
    /\ level = "unset"
    /\ level' = is_heading(text)
    /\ UNCHANGED <<text, input_dir, out_exists, out_files, log, pdf_files,
                   pdf_file, pc, doc, title, outline, seen, page_num,
                   line_num, result>>

-----------------------------------------------------------------------------
(* extract_structure, statement by statement *)

LogEntry(lvl, msg, file) == [lvl |-> lvl, msg |-> msg, file |-> file]

\* a try block around fitz.open alone
in_try_open_only(at) == at = "open"

\* the statements inside the try block of extract_structure
in_try(at) == at \in {"open", "title", "outline_init", "outline", "return"}

\* where control goes when the statement at `at` raises an Exception
after_raise(at) == IF in_try(at) THEN "except" ELSE "aborted"

\* doc = fitz.open(pdf_path)
OpenDoc ==
    /\ pc = "open"
    /\ IF input_dir[pdf_file].opens
         THEN doc' = input_dir[pdf_file] /\ pc' = "title"
         ELSE doc' = doc /\ pc' = after_raise("open")
    /\ UNCHANGED <<text, level, input_dir, out_exists, out_files, log,
                   pdf_files, pdf_file, title, outline, seen, page_num,
                   line_num, result>>

\* title = self.extract_title(doc); get_text raises on a damaged page
CallExtractTitle ==
    /\ pc = "title"
    /\ IF doc.damaged \in first_pages(doc)
         THEN title' = title /\ pc' = after_raise("title")
         ELSE title' = extract_title(doc) /\ pc' = "outline_init"
    /\ UNCHANGED <<text, level, input_dir, out_exists, out_files, log,
                   pdf_files, pdf_file, doc, outline, seen, page_num,
                   line_num, result>>

\* extract_outline with seen kept on the extractor instead of a fresh set()
BeginOutline_shared_seen ==
    /\ pc = "outline_init"
    /\ outline' = <<>>
    /\ seen' = seen
    /\ page_num' = 0
    /\ line_num' = 0
    /\ pc' = "outline"
    /\ UNCHANGED <<text, level, input_dir, out_exists, out_files, log,
                   pdf_files, pdf_file, doc, title, result>>

\* extract_outline: outline = []; seen = set(); the page loop starts
BeginOutline ==
    /\ pc = "outline_init"
    /\ outline' = <<>>
    /\ seen' = {}
    /\ page_num' = 0
    /\ line_num' = 0
    /\ pc' = "outline"
    /\ UNCHANGED <<text, level, input_dir, out_exists, out_files, log,
                   pdf_files, pdf_file, doc, title, result>>

\* page.get_text("dict") raises on the damaged page
OutlineRaise ==
    /\ pc = "outline"
    /\ page_num < page_count(doc)
    /\ line_num = 0
    /\ doc.damaged = page_num + 1
    /\ pc' = after_raise("outline")
    /\ UNCHANGED <<text, level, input_dir, out_exists, out_files, log,
                   pdf_files, pdf_file, doc, title, outline, seen, page_num,
                   line_num, result>>

\* one pass of the innermost loop: the next line of the current page
OutlineLine ==
    /\ pc = "outline"
    /\ page_num < page_count(doc)
    /\ doc.damaged # page_num + 1
    /\ line_num < Len(PageLines(doc.pages[page_num + 1]))
    /\ LET line == PageLines(doc.pages[page_num + 1])[line_num + 1]
           st == visit_line([outline |-> outline, seen |-> seen], line, page_num)
       IN  /\ outline' = st.outline
           /\ seen' = st.seen
           /\ IF full_line(line) = <<>>
                THEN UNCHANGED <<text, level>>
                ELSE /\ text' = full_line(line)
                     /\ level' = is_heading(full_line(line))
    /\ line_num' = line_num + 1
    /\ UNCHANGED <<input_dir, out_exists, out_files, log, pdf_files, pdf_file,
                   pc, doc, title, page_num, result>>

\* the lines of the current page are exhausted: the next page
OutlineNextPage ==
    /\ pc = "outline"
    /\ page_num < page_count(doc)
    /\ doc.damaged # page_num + 1
    /\ line_num = Len(PageLines(doc.pages[page_num + 1]))
    /\ page_num' = page_num + 1
    /\ line_num' = 0
    /\ UNCHANGED <<text, level, input_dir, out_exists, out_files, log,
                   pdf_files, pdf_file, pc, doc, title, outline, seen, result>>

\* the page loop is exhausted: return outline
OutlineDone ==
    /\ pc = "outline"
    /\ page_num = page_count(doc)
    /\ pc' = "return"
    /\ UNCHANGED <<text, level, input_dir, out_exists, out_files, log,
                   pdf_files, pdf_file, doc, title, outline, seen, page_num,
                   line_num, result>>

\* return {"title": title, "outline": outline}
ReturnResult ==
    /\ pc = "return"
    /\ result' = [title |-> title, outline |-> outline]
    /\ pc' = "write"
    /\ UNCHANGED <<text, level, input_dir, out_exists, out_files, log,
                   pdf_files, pdf_file, doc, title, outline, seen, page_num,
                   line_num>>

\* except Exception: logger.error(...); return {"title": pdf_path.stem, "outline": []}
Except ==
    /\ pc = "except"
    /\ log' = Append(log, LogEntry("ERROR", "Failed to process", pdf_file))
    /\ result' = [title |-> stem(pdf_file), outline |-> <<>>]
    /\ pc' = "write"
    /\ UNCHANGED <<text, level, input_dir, out_exists, out_files, pdf_files,
                   pdf_file, doc, title, outline, seen, page_num, line_num>>

NextDoc ==
    \/ OpenDoc
    \/ CallExtractTitle
    \/ BeginOutline
    \/ OutlineRaise
    \/ OutlineLine
    \/ OutlineNextPage
    \/ OutlineDone
    \/ ReturnResult
    \/ Except

-----------------------------------------------------------------------------
(* process_pdfs, statement by statement *)

\* output_dir.mkdir(parents=True, exist_ok=True)
Mkdir ==
    /\ pc = "start"
    /\ out_exists' = TRUE
    /\ pc' = "glob"
    /\ UNCHANGED <<text, level, input_dir, out_files, log, pdf_files, pdf_file,
                   doc, title, outline, seen, page_num, line_num, result>>

\* process_pdfs without the early return on an empty list
Glob_no_return ==
    /\ pc = "glob"
    /\ pdf_files' = {n \in DOMAIN input_dir : matches_pdf(n)}
    /\ log' = log
    /\ pc' = "loop"
    /\ UNCHANGED <<text, level, input_dir, out_exists, out_files, pdf_file,
                   doc, title, outline, seen, page_num, line_num, result>>

\* pdf_files = list(input_dir.glob("*.pdf")); if not pdf_files: warn and return
Glob ==
    /\ pc = "glob"
    /\ pdf_files' = {n \in DOMAIN input_dir : matches_pdf(n)}
    /\ IF pdf_files' = {}
         THEN /\ log' = Append(log, LogEntry("WARNING", "No PDF files found", NoFile))
              /\ pc' = "done"
         ELSE /\ log' = log
              /\ pc' = "loop"
    /\ UNCHANGED <<text, level, input_dir, out_exists, out_files, pdf_file,
                   doc, title, outline, seen, page_num, line_num, result>>

\* for pdf_file in pdf_files: logger.info("Processing ..."); the order of a
\* glob is the directory's, which is any
NextFile ==
    /\ pc = "loop"
    /\ \E f \in pdf_files :
          /\ pdf_file' = f
          /\ pdf_files' = pdf_files \ {f}
          /\ log' = Append(log, LogEntry("INFO", "Processing", f))
    /\ pc' = "open"
    /\ UNCHANGED <<text, level, input_dir, out_exists, out_files, doc, title,
                   outline, seen, page_num, line_num, result>>

\* json.dump(result, open(output_file, "w")); logger.info("Saved output to ...")
WriteOutput ==
    /\ pc = "write"
    /\ out_files' = Put(out_files, output_file(pdf_file), result)
    /\ log' = Append(log, LogEntry("INFO", "Saved output to", output_file(pdf_file)))
    /\ pc' = "loop"
    /\ UNCHANGED <<text, level, input_dir, out_exists, pdf_files, pdf_file,
                   doc, title, outline, seen, page_num, line_num, result>>

\* the loop is exhausted: process_pdfs returns
Finish ==
    /\ pc = "loop"
    /\ pdf_files = {}
    /\ pc' = "done"
    /\ UNCHANGED <<text, level, input_dir, out_exists, out_files, log,
                   pdf_files, pdf_file, doc, title, outline, seen, page_num,
                   line_num, result>>

Next ==
    \/ Mkdir
    \/ Glob
    \/ NextFile
    \/ WriteOutput
    \/ Finish
    \/ NextDoc

-----------------------------------------------------------------------------
(* Specifications *)

\* process_pdfs on a directory
Spec == Init /\ [][Next]_vars

\* extract_structure on one document
SpecDoc == InitDoc /\ [][NextDoc]_vars

\* extract_title on one document
SpecTitle == InitTitle /\ [][OpenDoc \/ CallExtractTitle]_vars

\* is_heading on one text
SpecHeading == InitHeading /\ [][CallIsHeading]_vars

\* is_heading on one text, and as extract_outline calls it
SpecGate == (InitHeading \/ InitDoc) /\ [][CallIsHeading \/ NextDoc]_vars

-----------------------------------------------------------------------------
(* The properties checked *)

\* whether processing a file of content d fails somewhere
Fails(d) == ~d.opens \/ d.damaged \in 1..Len(d.pages)

\* the lines of page p (1-based) of d that the classifier takes for headings
HeadingLineAt(d, p, i) ==
    LET fl == full_line(PageLines(d.pages[p])[i])
    IN  fl # <<>> /\ is_heading(fl) # None

HeadingPositions(d) ==
    {pos \in UNION {{<<p, i>> : i \in 1..Len(PageLines(d.pages[p]))}
                    : p \in 1..Len(d.pages)} :
        HeadingLineAt(d, pos[1], pos[2])}

LineText(d, pos) == full_line(PageLines(d.pages[pos[1]])[pos[2]])

IsPrefix(a, b) == Len(a) <= Len(b) /\ SubSeq(b, 1, Len(a)) = a

\* C1: extract_structure lets no failure escape, and whenever opening the
\* document, the title or the outline fails, what it returns is exactly
\* {title: the stem of the file name, outline: []}: nothing of a title or an
\* outline computed before the failure is in it.
C1_DegradedOnFailure ==
    /\ pc # "aborted"
    /\ (pc = "write" /\ Fails(input_dir[pdf_file]))
          => result = [title |-> stem(pdf_file), outline |-> <<>>]
    /\ (pc = "write" /\ pdf_file = N_broken_pdf /\ Fails(input_dir[pdf_file]))
          => result.title = <<"b", "r", "o", "k", "e", "n">>

\* C1 witness: the third page fails after a title and an outline entry were
\* computed from the first two, and the result of "broken.pdf" is degraded.
C1_Witness ==
    /\ pc = "write"
    /\ pdf_file = N_broken_pdf
    /\ doc.damaged = 3
    /\ title # <<>>
    /\ outline # <<>>
    /\ result.outline = <<>>
    /\ result.title = <<"b", "r", "o", "k", "e", "n">>

C2_Count(msg, file) ==
    Cardinality({i \in 1..Len(log) : log[i].msg = msg /\ log[i].file = file})

C2_Documents == {n \in DOMAIN input_dir : matches_pdf(n)}

\* C2: the batch never aborts, every input document is processed once and
\* its record written once, and the record written for a document is the one
\* extract_structure gives for that document alone, whatever the documents
\* before it held or whether they failed.
C2_IndependentOutcomes ==
    /\ pc # "aborted"
    /\ pc = "write" => result = extract_structure(pdf_file, input_dir[pdf_file])
    /\ (pc = "loop" /\ pdf_file # NoFile)
          => /\ output_file(pdf_file) \in DOMAIN out_files
             /\ out_files[output_file(pdf_file)]
                   = extract_structure(pdf_file, input_dir[pdf_file])
    /\ pc = "done"
          => /\ \A n \in DOMAIN input_dir :
                   C2_Count("Processing", n) = (IF n \in C2_Documents THEN 1 ELSE 0)
             /\ Cardinality({i \in 1..Len(log) : log[i].msg = "Saved output to"})
                   = Cardinality(C2_Documents)

\* C2 witness: a batch of two readable documents that hold the same heading
\* on the same page, each with that heading in its own record.
C2_Witness ==
    /\ pc = "done"
    /\ \E f, g \in C2_Documents :
          /\ f # g
          /\ ~Fails(input_dir[f]) /\ ~Fails(input_dir[g])
          /\ input_dir[f] # input_dir[g]
          /\ \E i \in 1..Len(out_files[output_file(f)].outline),
                j \in 1..Len(out_files[output_file(g)].outline) :
                LET a == out_files[output_file(f)].outline[i]
                    b == out_files[output_file(g)].outline[j]
                IN  Lower(a.text) = Lower(b.text) /\ a.page = b.page

NoDuplicateKeys(o) ==
    \A i, j \in 1..Len(o) :
        (Lower(o[i].text) = Lower(o[j].text) /\ o[i].page = o[j].page) => i = j

\* C3: at every step of extract_outline and in what it returns, no two
\* outline entries have the same (lowercased text, page).
C3_NoDuplicateEntries ==
    /\ NoDuplicateKeys(outline)
    /\ NoDuplicateKeys(result.outline)

\* C3 witness: an outline of two entries or more was returned for a document
\* with more heading lines than that, so a repeated line was suppressed.
C3_Witness ==
    /\ pc = "write"
    /\ ~Fails(doc)
    /\ Len(result.outline) >= 2
    /\ Cardinality(HeadingPositions(doc)) > Len(result.outline)

C4_PagesOf(d, k) ==
    {p \in 1..Len(d.pages) :
        \E pos \in HeadingPositions(d) : pos[1] = p /\ Lower(LineText(d, pos)) = k}

C4_EntriesOf(o, k) == {i \in 1..Len(o) : Lower(o[i].text) = k}

\* C4: in the outline returned, each heading text (compared in lower case)
\* has as many entries as there are distinct pages on which a heading line
\* with that text appears, and each entry's page is the 0-based index of the
\* page of such a line plus 1.
C4_OneEntryPerPage ==
    (pc = "write" /\ ~Fails(input_dir[pdf_file]))
       => /\ \A pos \in HeadingPositions(doc) :
                LET k == Lower(LineText(doc, pos))
                IN  Cardinality(C4_EntriesOf(result.outline, k))
                       = Cardinality(C4_PagesOf(doc, k))
          /\ \A i \in 1..Len(result.outline) :
                \E pos \in HeadingPositions(doc) :
                    /\ LineText(doc, pos) = result.outline[i].text
                    /\ result.outline[i].page = (pos[1] - 1) + 1

\* C4 witness: a heading text that appears twice on one page and again on a
\* later page has exactly two entries.
C4_Witness ==
    /\ pc = "write"
    /\ ~Fails(doc)
    /\ \E pos, dup, later \in HeadingPositions(doc) :
          LET k == Lower(LineText(doc, pos))
          IN  /\ dup[1] = pos[1] /\ dup[2] > pos[2]
              /\ Lower(LineText(doc, dup)) = k
              /\ later[1] > pos[1]
              /\ Lower(LineText(doc, later)) = k
              /\ Cardinality(C4_EntriesOf(result.outline, k)) = 2

\* the first line of page p (1-based) of d whose text is t
C5_FirstLine(d, p, t) ==
    Min({i \in 1..Len(PageLines(d.pages[p])) :
            full_line(PageLines(d.pages[p])[i]) = t})

C5_InReadingOrder(d, o) ==
    \A i, j \in 1..Len(o) :
        i < j => \/ o[i].page < o[j].page
                 \/ /\ o[i].page = o[j].page
                    /\ C5_FirstLine(d, o[i].page, o[i].text)
                          < C5_FirstLine(d, o[j].page, o[j].text)

\* C5: the outline is in reading order at every step (pages never decrease
\* along it, and within a page the entries follow the order of their lines),
\* each step only appends to it, and what is returned is the outline so built.
C5_ReadingOrder ==
    [][/\ IsPrefix(outline, outline')
       /\ C5_InReadingOrder(doc', outline')
       /\ (pc = "return" => result'.outline = outline)]_vars

\* C5 witness: an outline with two entries of one page and one of a later page.
C5_Witness ==
    /\ pc = "write"
    /\ ~Fails(doc)
    /\ \E i, j, k \in 1..Len(result.outline) :
          /\ i < j /\ j < k
          /\ result.outline[i].page = result.outline[j].page
          /\ result.outline[j].page < result.outline[k].page

\* C6 as stated: is_heading returns H3 for every text with an
\* <int>.<int>.<int> prefix.
C6_Original ==
    (level # "unset" /\ re_num_num_num(text)) => level = "H3"

\* C6: is_heading returns H3 for every text with an <int>.<int>.<int> prefix
\* whose trimmed form has at most 150 characters and at most 20 words, though
\* the H2 pattern <int>.<int> matches a prefix of it too.
C6_H3Precedence ==
    (/\ level # "unset"
     /\ re_num_num_num(text)
     /\ Len(Strip(text)) <= 150
     /\ WordCount(Strip(text)) <= 20) => level = "H3"

\* C6 witness: a text on which an H3 and an H2 pattern both match is H3.
C6_Witness ==
    /\ level = "H3"
    /\ re_num_num_num(text)
    /\ re_num_num(text)
    /\ Len(text) > 5

C7_UpperAndSpaces(t) ==
    Len(t) >= 5 /\ \A i \in 1..Len(t) : t[i] \in UpperLetters \cup {" "}

\* C7 as stated: is_heading returns H1 for every text of uppercase letters
\* and spaces only that has 5 characters or more.
C7_Original ==
    (level # "unset" /\ C7_UpperAndSpaces(text)) => level = "H1"

\* C7: is_heading returns H1 for every text of uppercase letters and spaces
\* only, of 5 characters or more, that holds a letter and whose trimmed form
\* has at most 150 characters and at most 20 words.
C7_UppercaseIsH1 ==
    (/\ level # "unset"
     /\ C7_UpperAndSpaces(text)
     /\ \E i \in 1..Len(text) : text[i] \in UpperLetters
     /\ Len(Strip(text)) <= 150
     /\ WordCount(Strip(text)) <= 20) => level = "H1"

\* C7 witness: a text of capitals and spaces that no H1 pattern matches once
\* trimmed, classified H1.
C7_Witness ==
    /\ level = "H1"
    /\ C7_UpperAndSpaces(text)
    /\ ~h1_patterns(Strip(text))

C8_OverGate(t) == Len(Strip(t)) > 150 \/ WordCount(Strip(t)) > 20

\* C8: is_heading returns None for every text whose trimmed form has more
\* than 150 characters or more than 20 words, whatever pattern it matches,
\* and no outline entry has such a text.
C8_GateFirst ==
    /\ (level # "unset" /\ C8_OverGate(text)) => level = None
    /\ \A i \in 1..Len(outline) : ~C8_OverGate(outline[i].text)
    /\ \A i \in 1..Len(result.outline) : ~C8_OverGate(result.outline[i].text)

\* C8 witness: extract_outline has passed a line of more than 20 words that
\* an H1 pattern matches, is_heading returned None for it, and the outline
\* returned has entries, none of them that line.
C8_Witness ==
    /\ pc = "write"
    /\ \E p \in 1..Len(doc.pages) :
          \E i \in 1..Len(PageLines(doc.pages[p])) :
              LET fl == full_line(PageLines(doc.pages[p])[i])
              IN  /\ WordCount(fl) > 20 /\ h1_patterns(fl)
                  /\ \A j \in 1..Len(result.outline) : result.outline[j].text # fl
    /\ result.outline # <<>>

\* the spans extract_title may choose from, as C9 describes them
C9_Candidates(d) ==
    UNION {{[text |-> Strip(PageSpans(d.pages[p])[i].text),
             size |-> PageSpans(d.pages[p])[i].size,
             page |-> p]
               : i \in {i \in 1..Len(PageSpans(d.pages[p])) :
                           LET t == Strip(PageSpans(d.pages[p])[i].text)
                           IN  10 < Len(t) /\ Len(t) < 150 /\ ~IsLower(t)}}
           : p \in {p \in 1..Len(d.pages) : p <= 2}}

\* C9: extract_title returns "" when no span of the first two pages is a
\* candidate, and otherwise the text of a candidate of the largest font size,
\* from the earliest page that has a candidate of that size.
C9_LargestOnFirstTwoPages ==
    pc = "outline_init"
       => LET cs == C9_Candidates(doc)
          IN  IF cs = {} THEN title = <<>>
              ELSE \E c \in cs :
                      /\ title = c.text
                      /\ \A o \in cs : o.size <= c.size
                      /\ \A o \in cs : o.size = c.size => c.page <= o.page

\* C9 witness: the third page holds a span that would be a candidate, larger
\* than the title chosen from the first two pages.
C9_Witness ==
    /\ pc = "outline_init"
    /\ Len(doc.pages) = 3
    /\ title # <<>>
    /\ \E i \in 1..Len(PageSpans(doc.pages[3])) :
          LET s == PageSpans(doc.pages[3])[i]
          IN  /\ 10 < Len(Strip(s.text)) /\ Len(Strip(s.text)) < 150
              /\ ~IsLower(Strip(s.text))
              /\ \A c \in C9_Candidates(doc) : c.size < s.size

C10_NoDocuments == \A n \in DOMAIN input_dir : ~matches_pdf(n)

C10_Warning == [lvl |-> "WARNING", msg |-> "No PDF files found", file |-> NoFile]

\* C10 as stated: with no matching input document process_pdfs only warns:
\* no document is processed, no output is written, and nothing of the file
\* system changes.
C10_Original ==
    [][C10_NoDocuments
          => /\ out_files' = out_files
             /\ out_exists' = out_exists
             /\ input_dir' = input_dir
             /\ pdf_file' = NoFile /\ result' = NoResult
             /\ (pc' = "done" => log' = <<C10_Warning>>)]_vars

\* C10: with no matching input document process_pdfs warns, processes no
\* document and writes no output; of the file system it changes nothing but
\* the output directory, which it creates if absent before it looks for
\* documents.
C10_WarnsAndOnlyMkdir ==
    [][C10_NoDocuments
          => /\ out_files' = out_files
             /\ out_exists' = (out_exists \/ pc = "start")
             /\ input_dir' = input_dir
             /\ pdf_file' = NoFile /\ result' = NoResult
             /\ (pc' = "done" => log' = <<C10_Warning>>)]_vars

\* C10 witness: process_pdfs returned on a directory with an entry that is no
\* document, and the output of an earlier run is still there.
C10_Witness ==
    /\ pc = "done"
    /\ C10_NoDocuments
    /\ DOMAIN input_dir # {}
    /\ out_files # <<>>
    /\ log = <<C10_Warning>>

=============================================================================
